---- MODULE Spec2Model ----
(***************************************************************************)
(* HackRx submission bot: task store, dispatcher thread, worker threads    *)
(* and the result-monitoring loop (src/mann.py, src/test.py).              *)
(*                                                                         *)
(* Several specifications share the module.                                *)
(*   Spec        the process: intake and cancel handlers on the event      *)
(*               loop, the scheduler thread, one worker thread per         *)
(*               dispatched task.  A worker's run through                  *)
(*               execute_hackrx_submission touches no shared state, so it  *)
(*               is one step here.                                         *)
(*   WorkerSpec  one worker thread, statement by statement, with the       *)
(*               monitoring loop cycle by cycle.                           *)
(*   StoreSpec   the TaskManager's mutating calls from two threads, with   *)
(*               save_tasks in steps.  Nothing reads the file after        *)
(*               startup, so Spec leaves it out.                           *)
(*   LoadSpec    load_tasks at startup, over the contents of the file.     *)
(*   ParseSpec   parse_time_input, over its inputs and the now it reads.   *)
(***************************************************************************)
EXTENDS Integers, Sequences, FiniteSets, TLC

\* ------------------------------------------------------------------ bounds
MaxTasks == 1
MaxClock == 1
max_result_checks == 11
MaxStored == 1
MaxRecords == 2
MaxDay == 2
MaxPending == 2
MaxQueued == 2

\* ------------------------------------------------------- program constants
max_initial_checks == 2
progress_every == 10

Users == {1}
Terminal == {"completed", "failed", "cancelled"}

VARIABLES
    clock,              \* wall clock, read by datetime.now(IST) and time.time()
    user_states,        \* HackRxBot.user_states: user -> intake state
    obj,                \* every ScheduledTask object constructed so far
    tasks,              \* TaskManager.tasks: serials of obj in dict order
    scheduler_running,  \* HackRxBot.scheduler_running
    dpc, dnow, dpending,\* scheduler thread: position, 'now', 'pending_tasks'
    wpc, wres,          \* worker threads: position, value of 'results'
    cpc, carg,          \* TaskManager.cancel_task in progress: position, id
    cancel_call,        \* the last cancel_task call: what it saw and returned
    nclaimed, nstarted, nsubmit, cancelled_ok,   \* history, per object
    rescanned,          \* history: objects a scan began after their worker started
    mon,                \* monitor_results_with_cooldown_detection locals
    notes_sent,         \* notifications handed to _schedule_notification
    driver,             \* scraper.driver
    file,               \* content of TASKS_FILE
    spc, snap,          \* threads in save_tasks: position, 'tasks_data'
    save_failed,        \* history: a save_tasks call ended in its 'except'
    loaded,             \* TaskManager.__init__ has run load_tasks
    text, parsed,       \* parse_time_input: its argument, what it did
    page_text, extracted, \* extract_submission_details: its page, its return
    nthreads,           \* history: scheduler threads started
    rejected,           \* history: an intake input was rejected
    slept,              \* history: the last monitoring pass ended in time.sleep
    capacity,           \* how many tasks a behaviour may hold; never changes
    returned,           \* the last TaskManager call and how it ended
    loop_queue,         \* coroutines handed to the event loop, not yet run
    sent_by             \* bot.send_message calls made: <<message, thread>>

svars == <<clock, user_states, obj, tasks, scheduler_running, dpc, dnow,
           dpending, cpc, carg, cancel_call, nclaimed, nstarted, nsubmit,
           cancelled_ok, rescanned>>
wvars == <<wpc, wres>>
mvars == <<mon, notes_sent, driver>>
qvars == <<file, spc, snap, save_failed, loaded, text, parsed>>
cvars == <<page_text, extracted>>
gvars == <<nthreads, rejected, slept>>
xvars == <<returned, loop_queue, sent_by>>
bvars == <<capacity, xvars>>
pvars == <<qvars, cvars, gvars, bvars>>
vars == <<svars, wvars, mvars, pvars>>

\* ------------------------------------------------------------- TaskManager
NoState == [step |-> "none", scheduled_time |-> 0]
NoResults == "none"
NoId == <<0, 0>>
NoCall == [seen |-> "none", returned |-> "none", after |-> "none"]

ScheduledTask(u, id, t, c) ==
    [user_id |-> u, task_id |-> id, scheduled_time |-> t,
     status |-> "pending", created_at |-> c, results |-> NoResults]

Serials == 1..Len(obj)

\* self.tasks[task_id]: position in the dict of the entry with that key, 0 if none
Index(id) ==
    IF \E i \in 1..Len(tasks) : obj[tasks[i]].task_id = id
    THEN CHOOSE i \in 1..Len(tasks) : obj[tasks[i]].task_id = id
    ELSE 0

Lookup(id) == IF Index(id) = 0 THEN 0 ELSE tasks[Index(id)]

\* the dict after self.tasks[task.task_id] = task, for the object with serial r
add_task(id, r) ==
    IF Index(id) = 0 THEN Append(tasks, r) ELSE [tasks EXCEPT ![Index(id)] = r]

\* get_pending_tasks without its status filter
IsPending(r) == obj[r].status = "pending"

\* get_pending_tasks without its status filter
get_pending_tasks_all == tasks

get_pending_tasks == SelectSeq(tasks, IsPending)

\* the results field assigned on every call
update_task_status_erases(id, status, results) ==
    IF Lookup(id) = 0 THEN obj
    ELSE [obj EXCEPT ![Lookup(id)].status = status,
                     ![Lookup(id)].results = results]

\* obj after update_task_status(id, status, results)
update_task_status(id, status, results) ==
    IF Lookup(id) = 0 THEN obj
    ELSE [obj EXCEPT ![Lookup(id)].status = status,
                     ![Lookup(id)].results =
                         IF results # NoResults THEN results ELSE @]

\* cancel_task letting a running task through
CanCancel_running(id) ==
    Lookup(id) # 0 /\ obj[Lookup(id)].status \in {"pending", "running"}

\* the test of cancel_task
CanCancel(id) == Lookup(id) # 0 /\ obj[Lookup(id)].status = "pending"

\* ------------------------------------------------------------------ intake
Times == 0..(MaxClock + 1)

\* every instant accepted
parse_time_input_lenient(t) == [raised |-> FALSE, value |-> t]

\* what parse_time_input does with an input denoting the instant t:
\* it returns t when t is after 'now' and raises ValueError otherwise
parse_time_input(t) ==
    IF t <= clock THEN [raised |-> TRUE, value |-> 0]
    ELSE [raised |-> FALSE, value |-> t]

EventLoopFree == cpc = "idle"

start_scheduling(u) ==
    /\ EventLoopFree
    /\ Len(obj) < capacity
    /\ user_states' = [user_states EXCEPT ![u] =
                          [step |-> "waiting_time", scheduled_time |-> 0]]
    /\ UNCHANGED <<clock, obj, tasks, scheduler_running, dpc, dnow, dpending,
                   cpc, carg, cancel_call, nclaimed, nstarted, nsubmit,
                   cancelled_ok, wvars, mvars, rescanned, pvars>>

handle_time_input(u, t) ==
    /\ EventLoopFree
    /\ user_states[u].step = "waiting_time"
    /\ user_states' =
          IF parse_time_input(t).raised THEN user_states
          ELSE [user_states EXCEPT ![u] =
                   [step |-> "waiting_webhook",
                    scheduled_time |-> parse_time_input(t).value]]
    /\ rejected' = (rejected \/ parse_time_input(t).raised)
    /\ UNCHANGED <<clock, obj, tasks, scheduler_running, dpc, dnow, dpending,
                   cpc, carg, cancel_call, nclaimed, nstarted, nsubmit,
                   cancelled_ok, wvars, mvars, rescanned, qvars, cvars, bvars,
                   nthreads, slept>>

\* every text taken for a destination
handle_webhook_input_lenient(u, valid) ==
    /\ EventLoopFree
    /\ user_states[u].step = "waiting_webhook"
    /\ user_states' = [user_states EXCEPT ![u].step = "waiting_notes"]
    /\ rejected' = (rejected \/ ~valid)
    /\ UNCHANGED <<clock, obj, tasks, scheduler_running, dpc, dnow, dpending,
                   cpc, carg, cancel_call, nclaimed, nstarted, nsubmit,
                   cancelled_ok, wvars, mvars, rescanned, qvars, cvars, bvars,
                   nthreads, slept>>

\* valid: text is 'default' or starts with http:// or https://
handle_webhook_input(u, valid) ==
    /\ EventLoopFree
    /\ user_states[u].step = "waiting_webhook"
    /\ user_states' =
          IF valid THEN [user_states EXCEPT ![u].step = "waiting_notes"]
          ELSE user_states
    /\ rejected' = (rejected \/ ~valid)
    /\ UNCHANGED <<clock, obj, tasks, scheduler_running, dpc, dnow, dpending,
                   cpc, carg, cancel_call, nclaimed, nstarted, nsubmit,
                   cancelled_ok, wvars, mvars, rescanned, qvars, cvars, bvars,
                   nthreads, slept>>

\* start_scheduler(application): scheduler_running and the number of
\* scheduler threads after it; it returns at once when one is running
start_scheduler ==
    [running |-> TRUE,
     threads |-> IF scheduler_running THEN nthreads ELSE nthreads + 1]

\* creates the task, add_task, clear_user_state, start_scheduler
handle_notes_input(u) ==
    /\ EventLoopFree
    /\ user_states[u].step = "waiting_notes"
    /\ Len(obj) < capacity
    /\ LET id == <<u, clock>>
           r == Len(obj) + 1
       IN /\ obj' = Append(obj, ScheduledTask(u, id,
                                user_states[u].scheduled_time, clock))
          /\ tasks' = add_task(id, r)
          /\ nclaimed' = Append(nclaimed, 0)
          /\ nstarted' = Append(nstarted, 0)
          /\ nsubmit' = Append(nsubmit, 0)
          /\ wpc' = Append(wpc, "none")
          /\ wres' = Append(wres, NoResults)
    /\ user_states' = [user_states EXCEPT ![u] = NoState]
    /\ scheduler_running' = start_scheduler.running
    /\ nthreads' = start_scheduler.threads
    /\ UNCHANGED <<clock, dpc, dnow, dpending, cpc, carg, cancel_call,
                   cancelled_ok, mvars, rescanned, qvars, cvars, bvars, rejected,
                   slept>>

\* ------------------------------------------------------------------ cancel
TaskIds == Users \X (0..MaxClock)

\* cancel_task(id), up to and including its test
cancel_task_test(id) ==
    /\ EventLoopFree
    /\ IF CanCancel(id)
       THEN /\ cpc' = "write"
            /\ carg' = id
            /\ cancel_call' = [seen |-> obj[Lookup(id)].status,
                               returned |-> "none", after |-> "none"]
       ELSE /\ UNCHANGED <<cpc, carg>>
            /\ cancel_call' =
                  [seen |-> IF Lookup(id) = 0 THEN "unknown id"
                            ELSE obj[Lookup(id)].status,
                   returned |-> "False",
                   after |-> IF Lookup(id) = 0 THEN "unknown id"
                             ELSE obj[Lookup(id)].status]
    /\ UNCHANGED <<clock, user_states, obj, tasks, scheduler_running, dpc,
                   dnow, dpending, nclaimed, nstarted, nsubmit, cancelled_ok,
                   wvars, mvars, rescanned, pvars>>

\* cancel_task(id) from the assignment of 'cancelled' to its return
cancel_task_write ==
    /\ cpc = "write"
    /\ obj' = [obj EXCEPT ![Lookup(carg)].status = "cancelled"]
    /\ cancelled_ok' = cancelled_ok \cup {Lookup(carg)}
    /\ cancel_call' = [cancel_call EXCEPT
                          !.returned = "True",
                          !.after = obj'[Lookup(carg)].status]
    /\ cpc' = "idle"
    /\ carg' = NoId
    /\ UNCHANGED <<clock, user_states, tasks, scheduler_running, dpc, dnow,
                   dpending, nclaimed, nstarted, nsubmit, wvars, mvars,
                   rescanned, pvars>>

\* --------------------------------------------------------- scheduler thread
Bump(n) == IF n < 2 THEN n + 1 ELSE n

\* check_and_run_tasks: 'now' and 'pending_tasks' are read; with nothing
\* pending the scan is over and the thread sleeps
check_and_run_tasks_scan ==
    /\ scheduler_running
    /\ dpc = "sleep"
    /\ dpending' = get_pending_tasks
    /\ dnow' = IF dpending' = << >> THEN 0 ELSE clock
    /\ dpc' = IF dpending' = << >> THEN "sleep" ELSE "loop"
    /\ rescanned' = rescanned \cup {r \in Serials : nstarted[r] > 0}
    /\ UNCHANGED <<clock, user_states, obj, tasks, scheduler_running, cpc,
                   carg, cancel_call, nclaimed, nstarted, nsubmit,
                   cancelled_ok, wvars, mvars, pvars>>

\* scheduler_thread: check_and_run_tasks raises before it has its list of
\* pending tasks (the dict changed size under get_pending_tasks)
check_and_run_tasks_raises ==
    /\ scheduler_running
    /\ dpc = "sleep"
    /\ dpc' = "except"
    /\ UNCHANGED <<clock, user_states, obj, tasks, scheduler_running, dnow,
                   dpending, cpc, carg, cancel_call, nclaimed, nstarted,
                   nsubmit, cancelled_ok, rescanned, wvars, mvars, pvars>>

\* the exception ends the thread
scheduler_thread_dies ==
    /\ dpc = "except"
    /\ dpc' = "dead"
    /\ UNCHANGED <<clock, user_states, obj, tasks, scheduler_running, dnow,
                   dpending, cpc, carg, cancel_call, nclaimed, nstarted,
                   nsubmit, cancelled_ok, rescanned, wvars, mvars, pvars>>

\* scheduler_thread: 'except Exception' logs, then time.sleep(30) and the
\* next turn of 'while self.scheduler_running'
scheduler_thread_except ==
    /\ dpc = "except"
    /\ dpc' = "sleep"
    /\ UNCHANGED <<clock, user_states, obj, tasks, scheduler_running, dnow,
                   dpending, cpc, carg, cancel_call, nclaimed, nstarted,
                   nsubmit, cancelled_ok, rescanned, wvars, mvars, pvars>>

IsDue(r) == obj[r].scheduled_time <= dnow

\* check_and_run_tasks: an iteration for a due task in which
\* _schedule_notification or thread.start() raises: the status was set to
\* running before, no worker is started, and the exception ends the scan in
\* scheduler_thread's 'except'
check_and_run_tasks_start_raises ==
    /\ dpc = "loop"
    /\ dpending # << >>
    /\ IsDue(Head(dpending))
    /\ LET id == obj[Head(dpending)].task_id
       IN /\ obj' = update_task_status(id, "running", NoResults)
          /\ nclaimed' = IF Lookup(id) = 0 THEN nclaimed
                         ELSE [nclaimed EXCEPT ![Lookup(id)] = Bump(@)]
    /\ dpending' = << >>
    /\ dpc' = "except"
    /\ dnow' = 0
    /\ UNCHANGED <<clock, user_states, tasks, scheduler_running, cpc, carg,
                   cancel_call, nstarted, nsubmit, cancelled_ok, wvars, mvars,
                   rescanned, pvars>>

\* the scan waits for the worker it started: thread.join()
check_and_run_tasks_task_joins ==
    /\ dpc = "loop"
    /\ dpending # << >>
    /\ \A w \in Serials : wpc[w] \notin {"execute", "update"}
    /\ LET r == Head(dpending)
           id == obj[r].task_id
       IN IF IsDue(r)
          THEN /\ obj' = update_task_status(id, "running", NoResults)
               /\ nclaimed' = IF Lookup(id) = 0 THEN nclaimed
                              ELSE [nclaimed EXCEPT ![Lookup(id)] = Bump(@)]
               /\ nstarted' = [nstarted EXCEPT ![r] = Bump(@)]
               /\ wpc' = [wpc EXCEPT ![r] = "execute"]
          ELSE UNCHANGED <<obj, nclaimed, nstarted, wpc>>
    /\ dpending' = Tail(dpending)
    /\ dpc' = IF dpending' = << >> THEN "sleep" ELSE "loop"
    /\ dnow' = IF dpending' = << >> THEN 0 ELSE dnow
    /\ UNCHANGED <<clock, user_states, tasks, scheduler_running,
                   cpc, carg, cancel_call, nsubmit, cancelled_ok, wres, mvars,
                   rescanned, pvars>>

\* check_and_run_tasks: one iteration of 'for task in pending_tasks'; after
\* the last one the scan is over and the thread sleeps
check_and_run_tasks_task ==
    /\ dpc = "loop"
    /\ dpending # << >>
    /\ LET r == Head(dpending)
           id == obj[r].task_id
       IN IF IsDue(r)
          THEN /\ obj' = update_task_status(id, "running", NoResults)
               /\ nclaimed' = IF Lookup(id) = 0 THEN nclaimed
                              ELSE [nclaimed EXCEPT ![Lookup(id)] = Bump(@)]
               /\ nstarted' = [nstarted EXCEPT ![r] = Bump(@)]
               /\ wpc' = [wpc EXCEPT ![r] = "execute"]
          ELSE UNCHANGED <<obj, nclaimed, nstarted, wpc>>
    /\ dpending' = Tail(dpending)
    /\ dpc' = IF dpending' = << >> THEN "sleep" ELSE "loop"
    /\ dnow' = IF dpending' = << >> THEN 0 ELSE dnow
    /\ UNCHANGED <<clock, user_states, tasks, scheduler_running,
                   cpc, carg, cancel_call, nsubmit, cancelled_ok, wres, mvars,
                   rescanned, pvars>>

\* ------------------------------------------------------------ worker thread
\* What execute_hackrx_submission can return, and whether submit_webhook was
\* called on the way: the driver or the login failed; submit_webhook failed
\* or driver.quit() raised after it; the monitoring returned.
ExecOutcomes ==
    { [success |-> FALSE, submitted |-> FALSE],
      [success |-> FALSE, submitted |-> TRUE],
      [success |-> TRUE,  submitted |-> TRUE] }

ResultsOf(success) == IF success THEN "success" ELSE "error"

\* run_hackrx_task up to the return of execute_hackrx_submission
run_hackrx_task_execute(r, out) ==
    /\ wpc[r] = "execute"
    /\ wres' = [wres EXCEPT ![r] = ResultsOf(out.success)]
    /\ nsubmit' = [nsubmit EXCEPT ![r] = IF out.submitted THEN Bump(@) ELSE @]
    /\ wpc' = [wpc EXCEPT ![r] = "update"]
    /\ UNCHANGED <<clock, user_states, obj, tasks, scheduler_running, dpc,
                   dnow, dpending, cpc, carg, cancel_call, nclaimed, nstarted,
                   cancelled_ok, mvars, rescanned, pvars>>

StatusOf(results) == IF results = "success" THEN "completed" ELSE "failed"

\* run_hackrx_task: update_task_status(task.task_id, 'completed'|'failed', results)
\* on the value execute_hackrx_submission returned.  The "Task Failed"
\* notification is sent in the 'except' branch only, which a returned value
\* does not enter: nothing is notified here.
run_hackrx_task_update(r) ==
    /\ wpc[r] = "update"
    /\ obj' = update_task_status(obj[r].task_id, StatusOf(wres[r]), wres[r])
    /\ wpc' = [wpc EXCEPT ![r] = "done"]
    /\ UNCHANGED <<clock, user_states, tasks, scheduler_running, dpc, dnow,
                   dpending, cpc, carg, cancel_call, nclaimed, nstarted,
                   nsubmit, cancelled_ok, wres, mvars, rescanned, pvars>>

\* -------------------------------------------------------------------- time
Tick ==
    /\ clock < MaxClock
    /\ clock' = clock + 1
    /\ UNCHANGED <<user_states, obj, tasks, scheduler_running, dpc, dnow,
                   dpending, cpc, carg, cancel_call, nclaimed, nstarted,
                   nsubmit, cancelled_ok, wvars, mvars, rescanned, pvars>>

\* ------------------------------------------------------------- persistence
MinutesPerDay == 1440

\* datetime.isoformat(): the date and the time of day, written apart
isoformat_date(t) == [iso |-> TRUE, date |-> t \div MinutesPerDay, time |-> 0]

isoformat(t) ==
    [iso |-> TRUE, date |-> t \div MinutesPerDay, time |-> t % MinutesPerDay]

\* a string datetime.fromisoformat rejects
NotIso == [iso |-> FALSE, date |-> 0, time |-> 0]

fromisoformat(str) == str.date * MinutesPerDay + str.time

\* json.dump / json.load of the results field: None is null
json_results(results) == IF results = NoResults THEN "null" ELSE results
results_json(encoded) == IF encoded = "null" THEN NoResults ELSE encoded

\* save_tasks: asdict(task) with both datetimes as ISO strings
task_dict(task) ==
    [user_id |-> task.user_id, task_id |-> task.task_id,
     scheduled_time |-> isoformat(task.scheduled_time),
     status |-> task.status,
     created_at |-> isoformat(task.created_at),
     results |-> json_results(task.results)]

\* save_tasks: tasks_data, in the dict's order
tasks_data == [i \in 1..Len(tasks) |-> task_dict(obj[tasks[i]])]

NoFile == [kind |-> "missing", data |-> << >>]
Garbage == [kind |-> "garbage", data |-> << >>]

\* the file after 'with open(TASKS_FILE, "w") as f: json.dump(tasks_data, f)'
json_dump(data) == [kind |-> "json", data |-> data]

\* load_tasks: the two fromisoformat calls and ScheduledTask(**task_dict)
\* go through for this entry
Decodable(entry) == entry.scheduled_time.iso /\ entry.created_at.iso

ScheduledTask_from(entry) ==
    [user_id |-> entry.user_id, task_id |-> entry.task_id,
     scheduled_time |-> fromisoformat(entry.scheduled_time),
     status |-> entry.status,
     created_at |-> fromisoformat(entry.created_at),
     results |-> results_json(entry.results)]

\* self.tasks[task_id] = ScheduledTask(**task_dict) on a dict held as a sequence
Put(store, task) ==
    IF \E i \in 1..Len(store) : store[i].task_id = task.task_id
    THEN [i \in 1..Len(store) |->
             IF store[i].task_id = task.task_id THEN task ELSE store[i]]
    ELSE Append(store, task)

\* load_tasks, 'for task_id, task_dict in tasks_data.items()': the first
\* entry that raises ends the loop in 'except', the entries before it stay
RECURSIVE load_records(_, _)
load_records(entries, store) ==
    IF entries = << >> THEN store
    ELSE IF ~Decodable(Head(entries)) THEN store
    ELSE load_records(Tail(entries), Put(store, ScheduledTask_from(Head(entries))))

\* self.tasks after load_tasks() on an empty dict
load_tasks(f) ==
    IF f.kind = "missing" THEN << >>
    ELSE IF f.kind = "garbage" THEN << >>
    ELSE load_records(f.data, << >>)

\* the threads that call the TaskManager: the event loop (intake and cancel
\* handlers) and a thread started by the bot (the scheduler thread, a worker)
Threads == {"loop", "thread"}
NoSnap == [size |-> 0, data |-> << >>]

NoDate == 0 - 1
NoText == [tomorrow |-> FALSE, date |-> NoDate,
           time |-> [matches |-> FALSE, hour |-> 0, minute |-> 0, ampm |-> ""]]
NoParsed == [done |-> FALSE, raised |-> FALSE, value |-> 0]

PInit ==
    /\ file = NoFile
    /\ spc = [th \in Threads |-> "idle"]
    /\ snap = [th \in Threads |-> NoSnap]
    /\ save_failed = FALSE
    /\ loaded = FALSE
    /\ text = NoText
    /\ parsed = NoParsed

\* ------------------------------------------------------------ specification
NoDetails == [kind |-> "none", status |-> "unknown", has_results |-> FALSE,
              is_processing |-> FALSE, has_error |-> FALSE]
Raised == [NoDetails EXCEPT !.kind = "raised"]
NoMon == [phase |-> "none", check |-> 0, outcome |-> "none",
          last |-> NoDetails, marker_seen |-> FALSE]
NoNotes == [k \in {"cooldown", "results", "error", "progress", "timeout",
                   "task_failed"} |-> 0]

NoReturn == [op |-> "none", id |-> NoId, status |-> "none", value |-> "none",
             written |-> "none"]

XInit ==
    /\ returned = NoReturn
    /\ loop_queue = << >>
    /\ sent_by = {}

GInit ==
    /\ page_text = {}
    /\ extracted = NoDetails
    /\ nthreads = 0
    /\ rejected = FALSE
    /\ slept = FALSE
    /\ capacity = MaxTasks
    /\ XInit

ProcessInit ==
    /\ clock = 0
    /\ user_states = [u \in Users |-> NoState]
    /\ obj = << >>
    /\ tasks = << >>
    /\ scheduler_running = FALSE
    /\ dpc = "sleep" /\ dnow = 0 /\ dpending = << >>
    /\ wpc = << >> /\ wres = << >>
    /\ cpc = "idle" /\ carg = NoId
    /\ cancel_call = NoCall
    /\ nclaimed = << >> /\ nstarted = << >> /\ nsubmit = << >>
    /\ cancelled_ok = {}
    /\ rescanned = {}
    /\ mon = NoMon /\ notes_sent = NoNotes /\ driver = "none"

Init == ProcessInit /\ PInit /\ GInit

Next ==
    \/ \E u \in Users : start_scheduling(u)
    \/ \E u \in Users, t \in Times : handle_time_input(u, t)
    \/ \E u \in Users, valid \in BOOLEAN : handle_webhook_input(u, valid)
    \/ \E u \in Users : handle_notes_input(u)
    \/ \E id \in TaskIds : cancel_task_test(id)
    \/ cancel_task_write
    \/ check_and_run_tasks_scan
    \/ check_and_run_tasks_task
    \/ check_and_run_tasks_start_raises
    \/ check_and_run_tasks_raises
    \/ scheduler_thread_except
    \/ \E r \in Serials, out \in ExecOutcomes : run_hackrx_task_execute(r, out)
    \/ \E r \in Serials : run_hackrx_task_update(r)
    \/ Tick

Spec == Init /\ [][Next]_vars

\* ================================================ one worker, step by step
Tokens == {"marker", "MARKER", "completed", "processing", "failed",
           "submitted", "invalid", "overall_score", "accuracy", "f1_score"}
\* A fetched page: which of these its text contains.  "marker" is the task's
\* notes as typed and "MARKER" the notes in another letter case; "failed" a
\* word of the failed pattern (failed, error, timeout), all error keywords
\* too; "invalid" an error keyword of no status pattern; the rest a status
\* word or a metric the patterns extract.
Pages == SUBSET Tokens

\* the notes taken as found on every page
marker_in_skipped(page) == TRUE

\* target_notes.lower() in page_text.lower()
marker_in(page) == page \cap {"marker", "MARKER"} # {}

\* extract_submission_details(page_text, target_notes)
found_status(page) ==
    IF "completed" \in page THEN "completed"
    ELSE IF "processing" \in page THEN "processing"
    ELSE IF "failed" \in page THEN "failed"
    ELSE IF "submitted" \in page THEN "submitted"
    ELSE "unknown"

\* the metrics the patterns of extract_submission_details look for
MetricNames == {"overall_score", "accuracy", "avg_response", "position",
                "f1_score", "precision", "recall", "throughput"}

\* The metrics whose patterns match a piece of page text.  A piece named
\* after a metric is that metric written with its own label and a number
\* ('Overall Score: 87.5', 'Accuracy: 92%', 'F1: 0.91', 'Position: #3');
\* "F1-Score" is 'F1-Score: 0.91', which the f1_score patterns match and
\* which the second overall-score pattern, 'Score[:\s]*(\d+...)', matches too.
matched(f) ==
    IF f = "F1-Score" THEN {"f1_score", "overall_score"}
    ELSE {f} \cap MetricNames

metrics(page) == UNION {matched(f) : f \in page}

has_results(page) ==
    metrics(page) # {} /\
    metrics(page) \cap {"overall_score", "accuracy", "avg_response"} # {}

has_error(page) ==
    page \cap {"failed", "invalid"} # {} \/ found_status(page) = "failed"

\* is_processing from the status alone
is_processing_loose(page) == found_status(page) \in {"processing", "submitted"}

is_processing(page) ==
    /\ found_status(page) \in {"processing", "submitted"}
    /\ ~has_results(page)
    /\ ~has_error(page)

extract_submission_details(page) ==
    IF ~marker_in(page)
    THEN [kind |-> "classified", status |-> "unknown", has_results |-> FALSE,
          is_processing |-> FALSE, has_error |-> FALSE, metrics |-> {}]
    ELSE [kind |-> "classified", status |-> found_status(page),
          has_results |-> has_results(page),
          is_processing |-> is_processing(page),
          has_error |-> has_error(page),
          metrics |-> metrics(page)]

\* the keys of details the monitoring loop reads
verdict(details) ==
    [k \in {"kind", "status", "has_results", "is_processing", "has_error"}
        |-> details[k]]

\* self.format_detailed_success_message(task, details) in HackRxBot: the
\* method is defined on HackRxSeleniumScraper only, so the attribute lookup
\* raises AttributeError
format_detailed_success_message == "AttributeError"

_schedule_notification(kind) == [notes_sent EXCEPT ![kind] = Bump(@)]

WorkerFrame == UNCHANGED <<clock, user_states, tasks, scheduler_running, dpc,
                           dnow, dpending, cpc, carg, cancel_call, nclaimed,
                           nstarted, cancelled_ok, rescanned, qvars, cvars,
                           bvars, nthreads, rejected>>

\* execute_hackrx_submission: scraper.create_driver(); when it returns a
\* false value the browser may have been started all the same
create_driver(r, ok, started) ==
    /\ wpc[r] = "create_driver"
    /\ driver' = IF ok \/ started THEN "open" ELSE "none"
    /\ wpc' = [wpc EXCEPT ![r] = IF ok THEN "login" ELSE "update"]
    /\ wres' = [wres EXCEPT ![r] = IF ok THEN @ ELSE ResultsOf(FALSE)]
    /\ UNCHANGED <<obj, nsubmit, mon, notes_sent>>
    /\ UNCHANGED slept
    /\ WorkerFrame

\* execute_hackrx_submission: scraper.login()
login(r, ok) ==
    /\ wpc[r] = "login"
    /\ wpc' = [wpc EXCEPT ![r] = IF ok THEN "submit" ELSE "quit"]
    /\ wres' = [wres EXCEPT ![r] = IF ok THEN @ ELSE ResultsOf(FALSE)]
    /\ UNCHANGED <<obj, nsubmit, mon, notes_sent, driver>>
    /\ UNCHANGED slept
    /\ WorkerFrame

\* a failed submit_webhook is called again
submit_webhook_retries(r, ok) ==
    /\ wpc[r] = "submit"
    /\ nsubmit' = [nsubmit EXCEPT ![r] = Bump(@)]
    /\ wpc' = [wpc EXCEPT ![r] = IF ok THEN "monitor" ELSE "submit"]
    /\ wres' = [wres EXCEPT ![r] = IF ok THEN @ ELSE ResultsOf(FALSE)]
    /\ mon' = IF ok THEN [mon EXCEPT !.phase = "confirming", !.check = 0]
              ELSE mon
    /\ UNCHANGED <<obj, notes_sent, driver>>
    /\ UNCHANGED slept
    /\ WorkerFrame

\* execute_hackrx_submission: scraper.submit_webhook(webhook_url, notes)
submit_webhook(r, ok) ==
    /\ wpc[r] = "submit"
    /\ nsubmit' = [nsubmit EXCEPT ![r] = Bump(@)]
    /\ wpc' = [wpc EXCEPT ![r] = IF ok THEN "monitor" ELSE "quit"]
    /\ wres' = [wres EXCEPT ![r] = IF ok THEN @ ELSE ResultsOf(FALSE)]
    /\ mon' = IF ok THEN [mon EXCEPT !.phase = "confirming", !.check = 0]
              ELSE mon
    /\ UNCHANGED <<obj, notes_sent, driver>>
    /\ UNCHANGED slept
    /\ WorkerFrame

\* the monitoring returns to execute_hackrx_submission, which returns
\* {"success": True, ...}
Return(outcome) == [mon EXCEPT !.phase = "returned", !.outcome = outcome]

\* the loop over, the monitoring goes on to phase 2 all the same
submission_not_found_polls(r) ==
    /\ mon' = [mon EXCEPT !.phase = "polling", !.check = 0]
    /\ notes_sent' = _schedule_notification("cooldown")
    /\ UNCHANGED <<wpc, wres>>

\* monitor_results_with_cooldown_detection, 'if not submission_found': the
\* cooldown notification and the return
submission_not_found(r) ==
    /\ mon' = Return("cooldown")
    /\ notes_sent' = _schedule_notification("cooldown")
    /\ wres' = [wres EXCEPT ![r] = ResultsOf(TRUE)]
    /\ wpc' = [wpc EXCEPT ![r] = "quit"]

\* monitor_results_with_cooldown_detection, phase 1: one pass of
\* 'for initial_check in range(max_initial_checks)', and what follows the
\* loop when this was its last pass
initial_check(r, raises, page) ==
    /\ wpc[r] = "monitor"
    /\ mon.phase = "confirming"
    /\ mon.check < max_initial_checks
    /\ IF ~raises /\ marker_in(page)
       THEN /\ mon' = [mon EXCEPT !.phase = "polling", !.check = 0,
                                  !.marker_seen = TRUE]
            /\ UNCHANGED <<notes_sent, wpc, wres>>
       ELSE IF mon.check + 1 < max_initial_checks
       THEN /\ mon' = [mon EXCEPT !.check = @ + 1]
            /\ UNCHANGED <<notes_sent, wpc, wres>>
       ELSE submission_not_found(r)
    /\ slept' = (/\ ~raises
                 /\ ~marker_in(page)
                 /\ mon.check < max_initial_checks - 1)
    /\ UNCHANGED <<obj, nsubmit, driver>>
    /\ WorkerFrame

\* the timeout reported as an error and returned as a failure
NextCheck_failing(r, details, notes) ==
    IF mon.check + 1 < max_result_checks
    THEN /\ mon' = [mon EXCEPT !.check = @ + 1, !.last = details]
         /\ notes_sent' = notes
         /\ UNCHANGED <<wpc, wres>>
    ELSE /\ mon' = [Return("timeout") EXCEPT !.last = details]
         /\ notes_sent' = [notes EXCEPT !["error"] = Bump(@)]
         /\ wres' = [wres EXCEPT ![r] = ResultsOf(FALSE)]
         /\ wpc' = [wpc EXCEPT ![r] = "quit"]

\* the end of a polling pass that did not return: the next pass, or after the
\* last one the timeout notification and the return
NextCheck(r, details, notes) ==
    IF mon.check + 1 < max_result_checks
    THEN /\ mon' = [mon EXCEPT !.check = @ + 1, !.last = details]
         /\ notes_sent' = notes
         /\ UNCHANGED <<wpc, wres>>
    ELSE /\ mon' = [Return("timeout") EXCEPT !.last = details]
         /\ notes_sent' = [notes EXCEPT !["timeout"] = Bump(@)]
         /\ wres' = [wres EXCEPT ![r] = ResultsOf(TRUE)]
         /\ wpc' = [wpc EXCEPT ![r] = "quit"]

\* 'if details["has_results"]': the message is formatted first, and that
\* raises into the pass's 'except Exception'
results_available(r, details) ==
    IF format_detailed_success_message = "AttributeError"
    THEN NextCheck(r, details, notes_sent)
    ELSE /\ mon' = [Return("scored") EXCEPT !.last = details]
         /\ notes_sent' = _schedule_notification("results")
         /\ wres' = [wres EXCEPT ![r] = ResultsOf(TRUE)]
         /\ wpc' = [wpc EXCEPT ![r] = "quit"]

\* the error is notified and the polling goes on
error_detected_continues(r, details) ==
    NextCheck(r, details, _schedule_notification("error"))

\* 'elif details["has_error"]': the error notification and the return
error_detected(r, details) ==
    /\ mon' = [Return("errored") EXCEPT !.last = details]
    /\ notes_sent' = _schedule_notification("error")
    /\ wres' = [wres EXCEPT ![r] = ResultsOf(TRUE)]
    /\ wpc' = [wpc EXCEPT ![r] = "quit"]

\* a pass that neither returns nor counts
still_processing_retry(r, details) ==
    /\ mon' = [mon EXCEPT !.last = details]
    /\ UNCHANGED <<notes_sent, wpc, wres>>

\* 'elif details["is_processing"]', and the pass that matches no branch
still_processing(r, details) ==
    IF /\ details.is_processing
       /\ mon.check > 0
       /\ mon.check % progress_every = 0
    THEN NextCheck(r, details, _schedule_notification("progress"))
    ELSE NextCheck(r, details, notes_sent)

\* a raising fetch ends the monitoring
result_check_aborts(r, raises, page) ==
    /\ wpc[r] = "monitor"
    /\ mon.phase = "polling"
    /\ mon.check < max_result_checks
    /\ LET details == verdict(extract_submission_details(page))
       IN IF raises THEN error_detected(r, Raised)
          ELSE IF details.has_results THEN results_available(r, details)
          ELSE IF details.has_error THEN error_detected(r, details)
          ELSE still_processing(r, details)
    /\ slept' = (/\ ~raises
                 /\ ~extract_submission_details(page).has_results
                 /\ ~extract_submission_details(page).has_error
                 /\ mon.check < max_result_checks - 1)
    /\ UNCHANGED <<obj, nsubmit, driver>>
    /\ WorkerFrame

\* monitor_results_with_cooldown_detection, phase 2: one pass of
\* 'for result_check in range(max_result_checks)', and what follows the loop
\* when this was its last pass
result_check(r, raises, page) ==
    /\ wpc[r] = "monitor"
    /\ mon.phase = "polling"
    /\ mon.check < max_result_checks
    /\ LET details == verdict(extract_submission_details(page))
       IN IF raises THEN NextCheck(r, Raised, notes_sent)
          ELSE IF details.has_results THEN results_available(r, details)
          ELSE IF details.has_error THEN error_detected(r, details)
          ELSE still_processing(r, details)
    /\ slept' = (/\ ~raises
                 /\ ~extract_submission_details(page).has_results
                 /\ ~extract_submission_details(page).has_error
                 /\ mon.check < max_result_checks - 1)
    /\ UNCHANGED <<obj, nsubmit, driver>>
    /\ WorkerFrame

\* an exception of driver.quit() that nothing catches ends the thread
quit_escapes(r, raises) ==
    /\ wpc[r] = "quit"
    /\ driver' = IF driver # "open" THEN driver
                 ELSE IF raises THEN "quit raised" ELSE "quit"
    /\ wpc' = [wpc EXCEPT ![r] =
                  IF driver = "open" /\ raises THEN "dead" ELSE "update"]
    /\ UNCHANGED <<obj, wres, nsubmit, mon, notes_sent>>
    /\ UNCHANGED slept
    /\ WorkerFrame

\* execute_hackrx_submission, finally: scraper.driver.quit(); when it raises,
\* the exception replaces the value being returned
quit(r, raises) ==
    /\ wpc[r] = "quit"
    /\ driver' = IF driver # "open" THEN driver
                 ELSE IF raises THEN "quit raised" ELSE "quit"
    /\ wres' = [wres EXCEPT ![r] =
                   IF driver = "open" /\ raises THEN ResultsOf(FALSE) ELSE @]
    /\ wpc' = [wpc EXCEPT ![r] = "update"]
    /\ UNCHANGED <<obj, nsubmit, mon, notes_sent>>
    /\ UNCHANGED slept
    /\ WorkerFrame

\* the dispatcher has just marked a due task running and started its worker
WorkerInit ==
    /\ clock = 1
    /\ user_states = [u \in Users |-> NoState]
    /\ obj = << [ScheduledTask(1, <<1, 0>>, 1, 0) EXCEPT !.status = "running"] >>
    /\ tasks = <<1>>
    /\ scheduler_running = TRUE
    /\ dpc = "sleep" /\ dnow = 0 /\ dpending = << >>
    /\ wpc = << "create_driver" >> /\ wres = << NoResults >>
    /\ cpc = "idle" /\ carg = NoId
    /\ cancel_call = NoCall
    /\ nclaimed = <<1>> /\ nstarted = <<1>> /\ nsubmit = <<0>>
    /\ cancelled_ok = {}
    /\ rescanned = {}
    /\ mon = NoMon /\ notes_sent = NoNotes /\ driver = "none"
    /\ PInit /\ GInit

WorkerNext ==
    \/ \E r \in Serials, ok \in BOOLEAN, started \in BOOLEAN :
          create_driver(r, ok, started)
    \/ \E r \in Serials, ok \in BOOLEAN : login(r, ok)
    \/ \E r \in Serials, ok \in BOOLEAN : submit_webhook(r, ok)
    \/ \E r \in Serials, raises \in BOOLEAN, page \in Pages :
          initial_check(r, raises, page)
    \/ \E r \in Serials, raises \in BOOLEAN, page \in Pages :
          result_check(r, raises, page)
    \/ \E r \in Serials, raises \in BOOLEAN : quit(r, raises)
    \/ \E r \in Serials : run_hackrx_task_update(r)

WorkerSpec == WorkerInit /\ [][WorkerNext]_vars

\* the worker thread is scheduled and every external call returns or raises
WorkerLive == WorkerSpec /\ WF_vars(WorkerNext)

\* ========================================= the TaskManager under two threads
\* Every mutating call ends in save_tasks, which takes no lock: it iterates
\* the dict, opens the file for writing and dumps.  A call is in steps here:
\* the mutation, the iteration, the open, the dump.
StoreFrame == UNCHANGED <<clock, user_states, scheduler_running, dpc, dnow,
                          dpending, cpc, carg, cancel_call, nclaimed, nstarted,
                          nsubmit, cancelled_ok, rescanned, wvars, mvars, loaded,
                          text, parsed, cvars, bvars, gvars>>

StoreTimes == {MinutesPerDay + 30}

\* the calls of update_task_status the program makes: the scheduler's
\* (id, 'running') and a worker's (id, 'completed'|'failed', results)
Calls == { [status |-> "running", results |-> NoResults],
           [status |-> "completed", results |-> "success"],
           [status |-> "failed", results |-> "error"] }

\* save_tasks is entered: 'for task_id, task in self.tasks.items()' starts
save_tasks(th) ==
    /\ spc' = [spc EXCEPT ![th] = "iterate"]
    /\ snap' = [snap EXCEPT ![th] = [size |-> Len(tasks'), data |-> << >>]]

\* add_task(task) from the intake handler, up to the call of save_tasks
TaskManager_add_task(id, t) ==
    /\ spc["loop"] = "idle"
    /\ Len(obj) < MaxStored
    /\ obj' = Append(obj, ScheduledTask(id[1], id, t, clock))
    /\ tasks' = add_task(id, Len(obj) + 1)
    /\ save_tasks("loop")
    /\ UNCHANGED <<file, save_failed>>
    /\ StoreFrame

\* update_task_status(id, status, results) from the scheduler thread or a
\* worker thread, up to the call of save_tasks
TaskManager_update_task_status(th, id, status, results) ==
    /\ spc[th] = "idle"
    /\ obj' = update_task_status(id, status, results)
    /\ UNCHANGED <<tasks, file, save_failed>>
    /\ IF Lookup(id) # 0 THEN save_tasks(th) ELSE UNCHANGED <<spc, snap>>
    /\ StoreFrame

\* cancel_task(id) from the cancel handler, up to the call of save_tasks
TaskManager_cancel_task(id) ==
    /\ spc["loop"] = "idle"
    /\ UNCHANGED <<tasks, file, save_failed>>
    /\ IF CanCancel(id)
       THEN /\ obj' = [obj EXCEPT ![Lookup(id)].status = "cancelled"]
            /\ save_tasks("loop")
       ELSE UNCHANGED <<obj, spc, snap>>
    /\ StoreFrame

\* save_tasks: the loop that builds tasks_data; the dict iterator raises
\* RuntimeError when another thread has added a key meanwhile, and the
\* 'except' ends the call with nothing written
save_tasks_build(th) ==
    /\ spc[th] = "iterate"
    /\ IF Len(tasks) # snap[th].size
       THEN /\ spc' = [spc EXCEPT ![th] = "idle"]
            /\ snap' = [snap EXCEPT ![th] = NoSnap]
            /\ save_failed' = TRUE
       ELSE /\ spc' = [spc EXCEPT ![th] = "open"]
            /\ snap' = [snap EXCEPT ![th].data = tasks_data]
            /\ UNCHANGED save_failed
    /\ UNCHANGED <<obj, tasks, file>>
    /\ StoreFrame

\* save_tasks: open(TASKS_FILE, 'w') truncates the file
save_tasks_open(th) ==
    /\ spc[th] = "open"
    /\ file' = Garbage
    /\ spc' = [spc EXCEPT ![th] = "dump"]
    /\ UNCHANGED <<obj, tasks, snap, save_failed>>
    /\ StoreFrame

\* save_tasks: json.dump(tasks_data, f) and the close; with another thread
\* holding the file open too, the bytes of the two dumps may mix
save_tasks_dump(th, mixed) ==
    /\ spc[th] = "dump"
    /\ file' = IF mixed /\ \E other \in Threads \ {th} : spc[other] = "dump"
               THEN Garbage ELSE json_dump(snap[th].data)
    /\ spc' = [spc EXCEPT ![th] = "idle"]
    /\ snap' = [snap EXCEPT ![th] = NoSnap]
    /\ UNCHANGED <<obj, tasks, save_failed>>
    /\ StoreFrame

StoreNext ==
    \/ \E id \in TaskIds, t \in StoreTimes : TaskManager_add_task(id, t)
    \/ \E id \in TaskIds, call \in Calls :
          TaskManager_update_task_status("thread", id, call.status,
                                         call.results)
    \/ \E id \in TaskIds : TaskManager_cancel_task(id)
    \/ \E th \in Threads : save_tasks_build(th)
    \/ \E th \in Threads : save_tasks_open(th)
    \/ \E th \in Threads, mixed \in BOOLEAN : save_tasks_dump(th, mixed)

StoreSpec == Init /\ [][StoreNext]_vars

\* ======================================= the TaskManager calls, one by one
\* What a call of save_tasks leaves behind.  Its whole body is inside
\* 'try: ... except Exception', so it returns whatever the iteration, the
\* open or the dump does: the dump written, or nothing written (the open
\* raised), or a truncated or partial file (the dump raised).
SaveOutcomes == {"dump", "nothing", "garbage"}

\* the exception of a failed write leaves save_tasks
save_tasks_outcome_escapes(out) == [raised |-> out # "dump", written |-> out]

save_tasks_outcome(out) == [raised |-> FALSE, written |-> out]

\* the file, and the record of the call, after a call that ends in
\* save_tasks(); it returns value unless save_tasks raised
SavedAndReturned(op, id, status, value, out) ==
    /\ file' = IF save_tasks_outcome(out).written = "dump"
               THEN json_dump(tasks_data)'
               ELSE IF save_tasks_outcome(out).written = "garbage"
               THEN Garbage ELSE file
    /\ save_failed' = (save_failed \/ save_tasks_outcome(out).written # "dump")
    /\ returned' = [op |-> op, id |-> id, status |-> status,
                    value |-> IF save_tasks_outcome(out).raised
                              THEN "raised" ELSE value,
                    written |-> save_tasks_outcome(out).written]

CallFrame == UNCHANGED <<clock, user_states, scheduler_running, dpc, dnow,
                         dpending, cpc, carg, cancel_call, nclaimed, nstarted,
                         nsubmit, cancelled_ok, rescanned, wvars, mvars, spc,
                         snap, loaded, text, parsed, cvars, gvars, capacity,
                         loop_queue, sent_by>>

\* add_task(task): returns task.task_id
add_task_returns(id, t, out) ==
    /\ Len(obj) < MaxStored
    /\ obj' = Append(obj, ScheduledTask(id[1], id, t, clock))
    /\ tasks' = add_task(id, Len(obj) + 1)
    /\ SavedAndReturned("add_task", id, "pending", "task_id", out)
    /\ CallFrame

\* update_task_status(id, status, results): returns None; an unknown id
\* changes nothing and saves nothing
update_task_status_returns(id, status, results, out) ==
    /\ obj' = update_task_status(id, status, results)
    /\ UNCHANGED tasks
    /\ IF Lookup(id) # 0
       THEN SavedAndReturned("update_task_status", id, status, "None", out)
       ELSE /\ returned' = [op |-> "update_task_status", id |-> id,
                            status |-> status, value |-> "None",
                            written |-> "none"]
            /\ UNCHANGED <<file, save_failed>>
    /\ CallFrame

\* cancel_task(id): True after the save for a pending task, else False
cancel_task_returns(id, out) ==
    /\ UNCHANGED tasks
    /\ IF CanCancel(id)
       THEN /\ obj' = [obj EXCEPT ![Lookup(id)].status = "cancelled"]
            /\ SavedAndReturned("cancel_task", id, "cancelled", "True", out)
       ELSE /\ returned' = [op |-> "cancel_task", id |-> id,
                            status |-> "none", value |-> "False",
                            written |-> "none"]
            /\ UNCHANGED <<obj, file, save_failed>>
    /\ CallFrame

CallNext ==
    \/ \E id \in TaskIds, t \in StoreTimes, out \in SaveOutcomes :
          add_task_returns(id, t, out)
    \/ \E id \in TaskIds, call \in Calls, out \in SaveOutcomes :
          update_task_status_returns(id, call.status, call.results, out)
    \/ \E id \in TaskIds, out \in SaveOutcomes : cancel_task_returns(id, out)

CallSpec == Init /\ [][CallNext]_vars

\* ============================================================ load at startup
StoredStates == { [s |-> "pending", r |-> NoResults],
                  [s |-> "completed", r |-> "success"],
                  [s |-> "failed", r |-> "error"] }

\* what a store file may hold for one task: what save_tasks writes, and the
\* same with a scheduled_time that is no ISO string
FileEntries ==
    LET written == { task_dict([ScheduledTask(id[1], id, 1, 0) EXCEPT
                                   !.status = st.s, !.results = st.r]) :
                        id \in TaskIds, st \in StoredStates }
    IN written \cup { [e EXCEPT !.scheduled_time = NotIso] : e \in written }

RECURSIVE EntrySeqs(_)
EntrySeqs(n) ==
    IF n = 0 THEN { << >> }
    ELSE EntrySeqs(n - 1) \cup
         { Append(q, e) : q \in { p \in EntrySeqs(n - 1) : Len(p) = n - 1 },
                          e \in FileEntries }

DistinctKeys(q) ==
    \A i, j \in 1..Len(q) : q[i].task_id = q[j].task_id => i = j

Files ==
    {NoFile, Garbage} \cup
    { json_dump(q) : q \in { p \in EntrySeqs(MaxRecords) : DistinctKeys(p) } }

LoadInit ==
    /\ ProcessInit
    /\ file \in Files
    /\ spc = [th \in Threads |-> "idle"]
    /\ snap = [th \in Threads |-> NoSnap]
    /\ save_failed = FALSE
    /\ loaded = FALSE
    /\ text = NoText
    /\ parsed = NoParsed
    /\ GInit

\* TaskManager.__init__: self.tasks = {} and load_tasks()
TaskManager_init ==
    /\ ~loaded
    /\ obj' = load_tasks(file)
    /\ tasks' = [i \in 1..Len(obj') |-> i]
    /\ loaded' = TRUE
    /\ UNCHANGED <<clock, user_states, scheduler_running, dpc, dnow, dpending,
                   cpc, carg, cancel_call, nclaimed, nstarted, nsubmit,
                   cancelled_ok, rescanned, wvars, mvars, file, spc, snap,
                   save_failed, text, parsed, cvars, bvars, gvars>>

LoadNext == TaskManager_init

LoadSpec == LoadInit /\ [][LoadNext]_vars

\* ====================================================== parse_time_input
\* Instants are minutes; 'now' is clock.  An input text is what the code
\* takes from it: a 'tomorrow' prefix, a YYYY-M-D date (its day number) or
\* none, and the time token: whether a pattern matches it, the digits, the
\* am/pm suffix ("" for none: the 24-hour pattern).
ValueError == [raised |-> TRUE, value |-> 0]

\* datetime.min.time().replace(hour=hour, minute=minute)
time_replace(hour, minute) ==
    IF hour \in 0..23 /\ minute \in 0..59
    THEN [raised |-> FALSE, value |-> hour * 60 + minute]
    ELSE ValueError

_parse_12hour(hour, minute, ampm) ==
    IF ampm = "pm" /\ hour # 12 THEN time_replace(hour + 12, minute)
    ELSE IF ampm = "am" /\ hour = 12 THEN time_replace(0, minute)
    ELSE time_replace(hour, minute)

_parse_24hour(hour, minute) == time_replace(hour, minute)

\* the loop over time_patterns and 'if not target_time'
target_time(token) ==
    IF ~token.matches THEN ValueError
    ELSE IF token.ampm # "" THEN _parse_12hour(token.hour, token.minute,
                                              token.ampm)
    ELSE _parse_24hour(token.hour, token.minute)

\* target_date: today, tomorrow with the prefix, the explicit date if any
target_date(txt) ==
    IF txt.date # NoDate THEN txt.date
    ELSE IF txt.tomorrow THEN clock \div MinutesPerDay + 1
    ELSE clock \div MinutesPerDay

\* text.startswith('tomorrow') where the code tests it: the prefix has been
\* replaced by '' before, so the text never starts with it there
startswith_tomorrow(txt) == FALSE

\* the roll to the next day left out
scheduled_dt_noroll(txt) ==
    IF target_time(txt.time).raised THEN ValueError
    ELSE [raised |-> FALSE,
          value |-> target_date(txt) * MinutesPerDay
                       + target_time(txt.time).value]

\* parse_time_input up to the roll to the next day
scheduled_dt(txt) ==
    IF target_time(txt.time).raised THEN ValueError
    ELSE LET dt == target_date(txt) * MinutesPerDay
                      + target_time(txt.time).value
         IN [raised |-> FALSE,
             value |-> IF /\ dt <= clock
                          /\ txt.date = NoDate
                          /\ ~startswith_tomorrow(txt)
                       THEN dt + MinutesPerDay ELSE dt]

NowTimes == {0, 9 * 60, 14 * 60, 14 * 60 + 30, 23 * 60 + 30}
Nows == { MinutesPerDay + m : m \in NowTimes }

TimeTokens ==
    { [matches |-> TRUE, hour |-> h, minute |-> m, ampm |-> a] :
         h \in {0, 9, 12, 13, 14, 23, 24}, m \in {0, 30}, a \in {"", "am", "pm"} }
    \cup {NoText.time}

Texts == [tomorrow : BOOLEAN, date : {NoDate} \cup 0..MaxDay, time : TimeTokens]

ParseInit ==
    /\ clock \in Nows
    /\ user_states = [u \in Users |-> NoState]
    /\ obj = << >>
    /\ tasks = << >>
    /\ scheduler_running = FALSE
    /\ dpc = "sleep" /\ dnow = 0 /\ dpending = << >>
    /\ wpc = << >> /\ wres = << >>
    /\ cpc = "idle" /\ carg = NoId
    /\ cancel_call = NoCall
    /\ nclaimed = << >> /\ nstarted = << >> /\ nsubmit = << >>
    /\ cancelled_ok = {}
    /\ rescanned = {}
    /\ mon = NoMon /\ notes_sent = NoNotes /\ driver = "none"
    /\ file = NoFile
    /\ spc = [th \in Threads |-> "idle"]
    /\ snap = [th \in Threads |-> NoSnap]
    /\ save_failed = FALSE
    /\ loaded = FALSE
    /\ text \in Texts
    /\ parsed = NoParsed
    /\ GInit

\* parse_time_input(text)
parse_time_input_text ==
    /\ ~parsed.done
    /\ parsed' = IF scheduled_dt(text).raised
                 THEN [done |-> TRUE, raised |-> TRUE, value |-> 0]
                 ELSE [done |-> TRUE,
                       raised |-> parse_time_input(scheduled_dt(text).value).raised,
                       value |-> parse_time_input(scheduled_dt(text).value).value]
    /\ UNCHANGED <<svars, wvars, mvars, file, spc, snap, save_failed, loaded,
                   text, cvars, bvars, gvars>>

ParseNext == parse_time_input_text

ParseSpec == ParseInit /\ [][ParseNext]_vars

\* ============================================ extract_submission_details
\* The pieces of text a submissions page may show: those of Tokens, the
\* remaining metrics, and an F1 score labelled 'F1-Score'.
Fragments == Tokens \cup MetricNames \cup {"F1-Score"}

ClassifyInit ==
    /\ ProcessInit
    /\ PInit
    /\ page_text \in SUBSET Fragments
    /\ extracted = NoDetails
    /\ nthreads = 0
    /\ rejected = FALSE
    /\ slept = FALSE
    /\ capacity = MaxTasks
    /\ XInit

\* scraper.extract_submission_details(page_text, target_notes)
extract_submission_details_call ==
    /\ extracted.kind = "none"
    /\ extracted' = extract_submission_details(page_text)
    /\ UNCHANGED <<svars, wvars, mvars, qvars, page_text, gvars, bvars>>

ClassifyNext == extract_submission_details_call

ClassifySpec == ClassifyInit /\ [][ClassifyNext]_vars

\* ============================================== notifications and threads
\* The calls of self._schedule_notification: the scheduler thread's in
\* check_and_run_tasks, the worker thread's in run_hackrx_task and in
\* monitor_results_with_cooldown_detection.
Callers ==
    { <<"scheduler", "task_started">>, <<"worker", "task_failed">>,
      <<"worker", "cooldown">>, <<"worker", "results">>,
      <<"worker", "error">>, <<"worker", "progress">>,
      <<"worker", "timeout">> }

NotifyFrame == UNCHANGED <<svars, wvars, mvars, qvars, cvars, gvars, capacity,
                           returned>>

\* the calling thread sends the message itself
_schedule_notification_direct(th, message, open) ==
    /\ Len(loop_queue) < MaxQueued
    /\ sent_by' = sent_by \cup {<<message, th>>}
    /\ UNCHANGED loop_queue
    /\ NotifyFrame

\* _schedule_notification(application, user_id, message) called by thread
\* th: with the event loop set and not closed (open), the coroutine
\* send_task_notification(...) is handed to the loop by
\* asyncio.run_coroutine_threadsafe; otherwise the message is dropped
_schedule_notification_call(th, message, open) ==
    /\ Len(loop_queue) < MaxQueued
    /\ loop_queue' = IF open THEN Append(loop_queue, message) ELSE loop_queue
    /\ UNCHANGED sent_by
    /\ NotifyFrame

\* the event loop runs a coroutine it was handed: send_task_notification
\* awaits application.bot.send_message
send_task_notification ==
    /\ loop_queue # << >>
    /\ sent_by' = sent_by \cup {<<Head(loop_queue), "loop">>}
    /\ loop_queue' = Tail(loop_queue)
    /\ NotifyFrame

NotifyInit == WorkerInit

NotifyNext ==
    \/ \E c \in Callers, open \in BOOLEAN :
          _schedule_notification_call(c[1], c[2], open)
    \/ send_task_notification

NotifySpec == NotifyInit /\ [][NotifyNext]_vars

\* ================================ the scheduler thread after a restart
\* The store as load_tasks left it, intake, and the scheduler thread: the
\* thread is started by the first intake after the restart, so its first
\* scan finds the stored tasks that came due while no scheduler was running.
StoredTimes == 0..MaxClock

\* the i-th task of the store file; its key is older than every key intake
\* makes in this process, its created_at before the process started
StoredTask(i, t) == ScheduledTask(1, <<1, 0 - i>>, t, NoDate)

\* the statuses a stored task is loaded with here: pending, or running
\* when the process stopped while the task's worker was executing it
StoredStatuses == {"pending", "running"}

SchedulerInit ==
    /\ \E k \in 0..MaxPending : \E ts \in [1..k -> StoredTimes] :
       \E st \in [1..k -> StoredStatuses] :
          /\ obj = [i \in 1..k |->
                       [StoredTask(i, ts[i]) EXCEPT !.status = st[i]]]
          /\ tasks = [i \in 1..k |-> i]
          /\ nclaimed = [i \in 1..k |-> 0]
          /\ nstarted = [i \in 1..k |-> 0]
          /\ nsubmit = [i \in 1..k |-> 0]
          /\ wpc = [i \in 1..k |-> "none"]
          /\ wres = [i \in 1..k |-> NoResults]
    /\ clock = 0
    /\ user_states = [u \in Users |-> NoState]
    /\ scheduler_running = FALSE
    /\ dpc = "sleep" /\ dnow = 0 /\ dpending = << >>
    /\ cpc = "idle" /\ carg = NoId
    /\ cancel_call = NoCall
    /\ cancelled_ok = {}
    /\ rescanned = {}
    /\ mon = NoMon /\ notes_sent = NoNotes /\ driver = "none"
    /\ PInit
    /\ page_text = {}
    /\ extracted = NoDetails
    /\ nthreads = 0
    /\ rejected = FALSE
    /\ slept = FALSE
    /\ capacity = MaxPending + 1
    /\ XInit

SchedulerNext ==
    \/ \E u \in Users : start_scheduling(u)
    \/ \E u \in Users, t \in Times : handle_time_input(u, t)
    \/ \E u \in Users, valid \in BOOLEAN : handle_webhook_input(u, valid)
    \/ \E u \in Users : handle_notes_input(u)
    \/ check_and_run_tasks_scan
    \/ check_and_run_tasks_task
    \/ check_and_run_tasks_start_raises
    \/ check_and_run_tasks_raises
    \/ scheduler_thread_except
    \/ Tick

SchedulerSpec == SchedulerInit /\ [][SchedulerNext]_vars

\* the scheduler thread, once started, is scheduled: it wakes from its
\* sleep, not every scan raises, and the clock advances; nothing makes a
\* user send a message
SchedulerLive ==
    /\ SchedulerSpec
    /\ SF_vars(check_and_run_tasks_scan)
    /\ WF_vars(check_and_run_tasks_task)
    /\ WF_vars(scheduler_thread_except)
    /\ WF_vars(Tick)

\* ================================================================== claims
Allowed == { <<"pending", "running">>, <<"running", "completed">>,
             <<"running", "failed">>, <<"pending", "cancelled">> }

\* C1: a task's status only moves pending -> running -> completed|failed or
\* pending -> cancelled; no step changes a completed, failed or cancelled status.
C1_StatusLifecycle ==
    [][\A r \in Serials :
          obj'[r].status # obj[r].status =>
              <<obj[r].status, obj'[r].status>> \in Allowed]_vars

\* C2: every task is marked running by the dispatcher at most once and at most
\* one worker is started for it, also when later scans find it still due.
C2_ClaimedOnce ==
    \A r \in Serials : nclaimed[r] <= 1 /\ nstarted[r] <= 1

C2_Witness ==
    \E r \in rescanned :
        /\ nclaimed[r] = 1 /\ nstarted[r] = 1
        /\ obj[r].scheduled_time <= clock

\* C3: once cancel_task has returned true for a task, the task stays
\* cancelled and submit_webhook is never called for it.
C3_CancelledStaysCancelled ==
    \A r \in cancelled_ok : obj[r].status = "cancelled" /\ nsubmit[r] = 0

\* C4: cancel_task returns true exactly when the id is in the store with
\* status pending at the call, and then the status becomes cancelled; for any
\* other status and for an unknown id it returns false.
C4_CancelReturn ==
    /\ cancel_call.returned = "True" =>
          cancel_call.seen = "pending" /\ cancel_call.after = "cancelled"
    /\ cancel_call.returned = "False" =>
          cancel_call.seen # "pending" /\ cancel_call.after = cancel_call.seen
    /\ cpc = "write" => cancel_call.seen = "pending"

C4_Witness ==
    /\ cancel_call.returned = "True"
    /\ cancel_call.after = "cancelled"

\* C6: the dispatcher marks a task running and starts its worker only when the
\* task is pending and its scheduled_time <= the scan's now: no task is
\* started early, no task that is not pending is started.
C6_StartsOnlyPendingDue ==
    [][\A r \in Serials :
          nstarted'[r] > nstarted[r] =>
              /\ obj[r].status = "pending"
              /\ obj[r].scheduled_time <= dnow
              /\ obj[r].scheduled_time <= clock]_vars

\* C5: a task that was marked running gets status completed or failed, with a
\* result, from its worker, whatever the external calls return or raise.
C5_RunningEndsTerminal ==
    (obj[1].status = "running") ~>
        (/\ wpc[1] = "done"
         /\ obj[1].status \in {"completed", "failed"}
         /\ obj[1].results # NoResults)

C5_Witness ==
    /\ wpc[1] = "done"
    /\ obj[1].status = "failed"
    /\ obj[1].results = "error"
    /\ mon.outcome = "timeout"
    /\ driver = "quit raised"

\* C7: the first polling pass that classifies has_results ends the monitoring
\* as scored: the results notification is sent and no pass follows.
C7_ResultsEndMonitoring ==
    mon.last.has_results =>
        /\ mon.phase = "returned"
        /\ mon.outcome = "scored"
        /\ notes_sent["results"] = 1

\* C8: the first polling pass that classifies has_error without has_results
\* ends the monitoring as errored: one error notification, and no pass follows.
ErrorSeen(m) == m.last.kind = "classified" /\ m.last.has_error
                /\ ~m.last.has_results

C8_ErrorEndsMonitoring ==
    [][/\ ErrorSeen(mon') =>
             /\ mon'.phase = "returned"
             /\ mon'.outcome = "errored"
             /\ notes_sent'["error"] = 1
       /\ mon'.outcome = "errored" => ErrorSeen(mon')
       /\ ErrorSeen(mon) => mon' = mon /\ notes_sent' = notes_sent]_vars

C8_Witness ==
    /\ ErrorSeen(mon)
    /\ mon.outcome = "errored"
    /\ mon.check > 0
    /\ wpc[1] = "done"

\* C9: when no confirmation fetch finds the marker (some may raise), the
\* monitoring ends in cooldown: the cooldown notification and no other is
\* sent and no polling pass is made; polling starts only after a confirmation
\* fetch found the marker, in whatever letter case.
C9_NotFoundIsCooldown ==
    /\ (mon.phase \in {"polling", "returned"} /\ ~mon.marker_seen) =>
          /\ mon.phase = "returned"
          /\ mon.outcome = "cooldown"
          /\ notes_sent = [NoNotes EXCEPT !["cooldown"] = 1]
          /\ mon.last = NoDetails
    /\ mon.outcome = "cooldown" => ~mon.marker_seen
    /\ (mon.phase = "polling" \/ mon.last # NoDetails) => mon.marker_seen

C9_Witness ==
    /\ mon.outcome = "cooldown"
    /\ notes_sent["cooldown"] = 1
    /\ wpc[1] = "done"
    /\ obj[1].status = "completed"

ActionFailed == wpc[1] = "done" /\ mon.phase = "none"

C11_ActionFailureNotified ==
    ActionFailed =>
        /\ obj[1].status = "failed"
        /\ obj[1].results = "error"
        /\ notes_sent["task_failed"] >= 1

\* C12: a pass of either phase whose fetch or classification raises is
\* caught: it uses up one pass of the phase, changes nothing else of the
\* monitoring, sends nothing and does not end the monitoring unless it was
\* the phase's last pass (then the phase ends as it does when its passes are
\* used up: cooldown, timeout).
C12_RaisedPassIsCaught ==
    [][/\ \A r \in Serials : initial_check(r, TRUE, {}) =>
             IF mon.check + 1 < max_initial_checks
             THEN /\ mon' = [mon EXCEPT !.check = @ + 1]
                  /\ notes_sent' = notes_sent
                  /\ wpc' = wpc /\ wres' = wres
             ELSE mon'.phase = "returned" /\ mon'.outcome = "cooldown"
       /\ \A r \in Serials : result_check(r, TRUE, {}) =>
             IF mon.check + 1 < max_result_checks
             THEN /\ mon' = [mon EXCEPT !.check = @ + 1, !.last = Raised]
                  /\ notes_sent' = notes_sent
                  /\ wpc' = wpc /\ wres' = wres
             ELSE mon'.phase = "returned" /\ mon'.outcome = "timeout"]_vars

C12_Witness ==
    /\ mon.phase = "polling"
    /\ mon.check > 1
    /\ mon.last = Raised
    /\ notes_sent = NoNotes

\* C13: the monitoring, once entered, returns with one of the outcomes
\* scored, errored, timeout, cooldown and keeps it; it makes at most
\* max_initial_checks confirmation passes and max_result_checks polling
\* passes, whatever the pages hold and whichever fetches raise.
C13_MonitoringTerminates ==
    /\ [](/\ mon.phase = "confirming" => mon.check < max_initial_checks
          /\ mon.phase = "polling" => mon.check < max_result_checks
          /\ mon.phase = "returned" <=>
                mon.outcome \in {"scored", "errored", "timeout", "cooldown"})
    /\ [][mon.phase = "returned" => mon' = mon]_vars
    /\ (mon.phase = "confirming") ~> (mon.phase = "returned")

C13_Witness ==
    /\ mon.phase = "returned"
    /\ mon.outcome = "timeout"
    /\ mon.last = Raised
    /\ mon.check = max_result_checks - 1

AllReturned == \A th \in Threads : spc[th] = "idle"

\* C15: when every mutating call has returned and no save failed, the file
\* holds the tasks in memory with their current status and result.
C15_WriteThrough ==
    (AllReturned /\ ~save_failed /\ tasks # << >>) =>
        file = json_dump(tasks_data)

\* C16: at most one thread is inside a mutating call and its save_tasks at a
\* time, and the file never holds the mixed bytes of two dumps.
C16_SavesSerialized ==
    /\ Cardinality({th \in Threads : spc[th] # "idle"}) <= 1
    /\ AllReturned => file.kind # "garbage"

\* C17: after the load at startup the store is empty when the file is
\* missing, and empty when the file or any one record of it cannot be
\* decoded; it never holds only some of the file's records.
C17_LoadAllOrNothing ==
    loaded =>
        /\ file.kind = "missing" => obj = << >>
        /\ (\/ file.kind = "garbage"
            \/ \E i \in 1..Len(file.data) : ~Decodable(file.data[i])) =>
              obj = << >>

TimeOfDay == target_time(text.time).value
Today == clock \div MinutesPerDay

\* C19: an instant parse_time_input returns is after the now it read; an
\* input whose instant is at or before now (an explicit date in the past) is
\* rejected.
C19_ReturnsFuture ==
    parsed.done =>
        /\ ~parsed.raised => parsed.value > clock
        /\ (/\ text.date # NoDate
            /\ ~target_time(text.time).raised
            /\ text.date * MinutesPerDay + TimeOfDay <= clock) => parsed.raised

C19_Witness ==
    /\ parsed.done /\ parsed.raised
    /\ text.date = Today
    /\ ~target_time(text.time).raised
    /\ TimeOfDay <= clock % MinutesPerDay

TimeOnlyRule ==
    (~text.tomorrow /\ text.date = NoDate) =>
        /\ ~parsed.raised
        /\ parsed.value = IF Today * MinutesPerDay + TimeOfDay > clock
                          THEN Today * MinutesPerDay + TimeOfDay
                          ELSE (Today + 1) * MinutesPerDay + TimeOfDay

ExplicitDateRule ==
    (text.date # NoDate /\ ~parsed.raised) =>
        parsed.value = text.date * MinutesPerDay + TimeOfDay

\* C20 as stated: a time-only input gives today at that time when that is
\* after now and the next day at that time otherwise; an explicit date is
\* never rolled forward; with 'tomorrow' the date is now's date plus one.
C20_Stated ==
    (parsed.done /\ ~target_time(text.time).raised) =>
        /\ TimeOnlyRule
        /\ ExplicitDateRule
        /\ text.tomorrow =>
              /\ ~parsed.raised
              /\ parsed.value = (Today + 1) * MinutesPerDay + TimeOfDay

\* C20: as stated, with the 'tomorrow' rule for inputs that carry no
\* explicit date (an explicit date after 'tomorrow' replaces the date).
C20_DateRules ==
    (parsed.done /\ ~target_time(text.time).raised) =>
        /\ TimeOnlyRule
        /\ ExplicitDateRule
        /\ (text.tomorrow /\ text.date = NoDate) =>
              /\ ~parsed.raised
              /\ parsed.value = (Today + 1) * MinutesPerDay + TimeOfDay

\* '9:30 AM' at 14:00
C20_Witness ==
    /\ parsed.done
    /\ text = [tomorrow |-> FALSE, date |-> NoDate,
               time |-> [matches |-> TRUE, hour |-> 9, minute |-> 30,
                         ampm |-> "am"]]
    /\ clock % MinutesPerDay = 14 * 60
    /\ parsed.value = (Today + 1) * MinutesPerDay + 9 * 60 + 30

\* C21: every task that intake has added has a scheduled_time strictly later
\* than its created_at, however long the user took between the time and the
\* notes.
C21_ScheduledAfterCreated ==
    \A r \in Serials : obj[r].scheduled_time > obj[r].created_at

\* the intake steps in order; start_scheduling opens the conversation anew
StepOrder == {<<"waiting_time", "waiting_webhook">>,
              <<"waiting_webhook", "waiting_notes">>,
              <<"waiting_notes", "none">>}

\* C22: a rejected time or destination creates no task and leaves the intake
\* step where it was; a task is added only from the notes step, which is
\* reached only through the time and the destination steps in order.
C22_RejectedInputCreatesNothing ==
    [][/\ (rejected' /\ ~rejected) => UNCHANGED <<user_states, obj, tasks>>
       /\ \A u \in Users, t \in Times :
             (handle_time_input(u, t) /\ parse_time_input(t).raised) =>
                 UNCHANGED <<user_states, obj, tasks>>
       /\ \A u \in Users :
             handle_webhook_input(u, FALSE) =>
                 UNCHANGED <<user_states, obj, tasks>>
       /\ Len(obj') > Len(obj) =>
             /\ Len(obj') = Len(obj) + 1
             /\ user_states[obj'[Len(obj')].user_id].step = "waiting_notes"
             /\ obj'[Len(obj')].scheduled_time =
                    user_states[obj'[Len(obj')].user_id].scheduled_time
       /\ \A u \in Users :
             user_states'[u].step # user_states[u].step =>
                 \/ user_states'[u].step = "waiting_time"
                 \/ <<user_states[u].step, user_states'[u].step>> \in StepOrder
      ]_vars

\* an input was rejected, and the conversation went on to add the task
C22_Witness == rejected /\ Len(obj) >= 1

\* the tasks intake added in this process
Added == {r \in Serials : obj[r].created_at # NoDate}

C30_ClaimedInTimeOrder ==
    [][\A r \in Serials :
          nstarted'[r] > nstarted[r] =>
              \A i \in 2..Len(dpending) :
                  (IsPending(dpending[i]) /\ IsDue(dpending[i])) =>
                      obj[r].scheduled_time <= obj[dpending[i]].scheduled_time
      ]_vars

\* C27: a task's result is populated only if its status is completed or
\* failed.
C27_ResultOnlyWhenTerminal ==
    \A r \in Serials :
        obj[r].results # NoResults => obj[r].status \in {"completed", "failed"}

\* a pass of the current monitoring phase is over and another one follows
BetweenCycles(r) ==
    /\ wpc[r] = "monitor"
    /\ mon.phase \in {"confirming", "polling"}
    /\ mon.check > 0

\* C28: within each monitoring phase a sleep separates every two consecutive
\* fetch cycles, also after a cycle whose fetch or classification raised,
\* and no sleep follows the last attempt or the cycle that ends the phase.
C28_SleepBetweenCycles ==
    \A r \in Serials : BetweenCycles(r) <=> slept

\* C29: a progress notification is sent on exactly the polling cycles whose
\* 1-based number is a multiple of 10 and whose page is classified as
\* processing, and on no other cycle.
C29_ProgressEveryTenth ==
    [][(mon.phase = "polling" /\ mon' # mon) =>
          (notes_sent'["progress"] # notes_sent["progress"] <=>
              /\ (mon.check + 1) % progress_every = 0
              /\ mon'.last.is_processing)]_vars

\* C23: when the page does not contain the task's notes in any letter case,
\* the classification has status unknown, has_results, has_error and
\* is_processing false, and no metrics.
C23_MarkerAbsentIsUnknown ==
    (extracted.kind = "classified" /\ page_text \cap {"marker", "MARKER"} = {})
        => /\ extracted.status = "unknown"
           /\ ~extracted.has_results
           /\ ~extracted.has_error
           /\ ~extracted.is_processing
           /\ extracted.metrics = {}

\* a page without the notes that shows a status word, an error keyword and
\* a score
C23_Witness ==
    /\ extracted.kind = "classified"
    /\ page_text = {"completed", "invalid", "overall_score"}
    /\ extracted.status = "unknown"

\* the metrics that alone do not make a result
Secondary == {"position", "f1_score", "precision", "recall", "throughput"}

\* C24: has_results is true exactly when overall_score, accuracy or
\* avg_response is among the extracted metrics; a page with the notes whose
\* text shows secondary metrics only (position, f1_score, precision, recall,
\* throughput) is classified with has_results false.
C24_ResultsNeedPrimaryMetric ==
    (extracted.kind = "classified" /\ page_text \cap {"marker", "MARKER"} # {})
        => /\ extracted.has_results <=>
                 extracted.metrics \cap
                     {"overall_score", "accuracy", "avg_response"} # {}
           /\ (page_text \cap (MetricNames \cup {"F1-Score"})
                   \subseteq Secondary \cup {"F1-Score"})
                 => ~extracted.has_results

\* the clause on a page that shows 'processing', no metric and no error
\* keyword, with and without the completed-indicators excluded
ShowsProcessing ==
    /\ page_text \cap {"marker", "MARKER"} # {}
    /\ "processing" \in page_text
    /\ page_text \cap (MetricNames \cup {"F1-Score"}) = {}
    /\ page_text \cap {"failed", "invalid"} = {}

ProcessingRule ==
    /\ extracted.is_processing <=>
          /\ extracted.status \in {"processing", "submitted"}
          /\ ~extracted.has_results
          /\ ~extracted.has_error
    /\ ~(extracted.is_processing /\ extracted.has_results)
    /\ ~(extracted.is_processing /\ extracted.has_error)

\* C25 as stated: is_processing is true exactly when the status is
\* processing or submitted and has_results and has_error are false, so
\* never together with either; a page with the notes whose context contains
\* 'processing', no metric and no error keyword is classified with
\* is_processing true and has_results false.
C25_Stated ==
    extracted.kind = "classified" =>
        /\ ProcessingRule
        /\ ShowsProcessing =>
              extracted.is_processing /\ ~extracted.has_results

\* C25: as stated, the last clause for a context that contains no
\* completed-indicator (completed, success), which would be the status.
C25_ProcessingClassified ==
    extracted.kind = "classified" =>
        /\ ProcessingRule
        /\ (ShowsProcessing /\ "completed" \notin page_text) =>
              extracted.is_processing /\ ~extracted.has_results

\* the notes, 'processing' and 'submitted' on the page
C25_Witness ==
    /\ extracted.kind = "classified"
    /\ page_text = {"MARKER", "processing", "submitted"}
    /\ extracted.is_processing
    /\ extracted.status = "processing"

\* C33: submit_webhook is invoked at most once for a task; after a failed
\* submit the worker goes to the release of the driver with a failure, never
\* invokes submit_webhook again and never enters the monitoring.
C33_SubmitAtMostOnce ==
    /\ [](\A r \in Serials :
             /\ nsubmit[r] <= 1
             /\ mon.phase # "none" => nsubmit[r] = 1)
    /\ [][\A r \in Serials :
             /\ nsubmit'[r] # nsubmit[r] =>
                   /\ nsubmit[r] = 0
                   /\ \/ wpc'[r] = "monitor"
                      \/ /\ wpc'[r] = "quit"
                         /\ wres'[r] = ResultsOf(FALSE)
                         /\ mon' = mon
             /\ wpc[r] \in {"quit", "update", "done"} =>
                   /\ nsubmit'[r] = nsubmit[r]
                   /\ mon'.phase = mon.phase
                   /\ wpc'[r] \in {"quit", "update", "done"}]_vars

\* the submit failed and the task ended failed without any monitoring
C33_Witness ==
    /\ nsubmit[1] = 1
    /\ wpc[1] = "done"
    /\ mon.phase = "none"
    /\ obj[1].status = "failed"

\* C39: a browser driver created for a task is quit before the task's worker
\* finishes, on every path, also when create_driver fails after the browser
\* was started.
C39_DriverAlwaysQuit ==
    \A r \in Serials : wpc[r] = "done" => driver # "open"

\* the classification of a polling cycle that matches no branch
NoBranch(details) ==
    /\ details.kind = "classified"
    /\ ~details.has_results
    /\ ~details.has_error
    /\ ~details.is_processing

\* C37: a polling cycle whose classification has has_results, has_error and
\* is_processing all false sends no notification and ends nothing: the
\* monitoring stays in polling and the cycle is counted; only when it was the
\* last cycle of the budget does the phase end, as a timeout.
C37_UnclassifiedCycleCounts ==
    [][(mon.phase = "polling" /\ mon' # mon /\ NoBranch(mon'.last)) =>
          IF mon.check + 1 < max_result_checks
          THEN /\ mon' = [mon EXCEPT !.check = @ + 1, !.last = mon'.last]
               /\ notes_sent' = notes_sent
               /\ wpc' = wpc /\ wres' = wres
          ELSE mon'.phase = "returned" /\ mon'.outcome = "timeout"]_vars

\* two such cycles: the status completed with no metrics
C37_Witness ==
    /\ mon.phase = "polling"
    /\ mon.check >= 2
    /\ NoBranch(mon.last)
    /\ mon.last.status = "completed"
    /\ notes_sent = NoNotes

\* C36: a task ends failed only when create_driver, login or submit_webhook
\* failed or an exception was raised; whenever submit_webhook succeeded the
\* task ends completed, whatever the monitoring returned.
C36_FailedOnlyOnActionFailure ==
    \A r \in Serials :
        wpc[r] = "done" =>
            /\ obj[r].status = "failed" =>
                  mon.phase = "none" \/ driver = "quit raised"
            /\ (nsubmit[r] = 1 /\ mon.phase # "none") =>
                  obj[r].status = "completed"

\* C34: when the write of the snapshot fails during add_task,
\* update_task_status or cancel_task, the call completes normally: no
\* exception reaches the caller, the change made in memory is kept, and
\* cancel_task returns True for a pending task.
C34_SaveFailureIsSwallowed ==
    /\ returned.value # "raised"
    /\ returned.written \in {"nothing", "garbage"} =>
          /\ Lookup(returned.id) # 0
          /\ obj[Lookup(returned.id)].status = returned.status
          /\ returned.op = "add_task" => returned.value = "task_id"
          /\ returned.op = "update_task_status" => returned.value = "None"
          /\ returned.op = "cancel_task" =>
                /\ returned.value = "True"
                /\ obj[Lookup(returned.id)].status = "cancelled"

\* a cancel of a pending task whose write failed
C34_Witness ==
    /\ returned.op = "cancel_task"
    /\ returned.written = "garbage"
    /\ returned.value = "True"
    /\ file = Garbage

\* C31: every notification of the scheduler thread or a worker thread is
\* handed to the event loop by _schedule_notification; send_message is
\* invoked by the event-loop thread only, for a message it was handed.
C31_SentFromEventLoop ==
    /\ [](\A s \in sent_by : s[2] = "loop")
    /\ [][sent_by' # sent_by =>
             /\ loop_queue # << >>
             /\ sent_by' = sent_by \cup {<<Head(loop_queue), "loop">>}
             /\ loop_queue' = Tail(loop_queue)]_vars

\* a message of the scheduler thread and one of a worker thread were sent
C31_Witness ==
    /\ <<"task_started", "loop">> \in sent_by
    /\ <<"progress", "loop">> \in sent_by
    /\ loop_queue = <<"timeout">>

\* C40: two intake completions never produce the same task id, so add_task
\* never replaces a record: every task ever added is still in the store,
\* and the store holds as many tasks as were loaded and added.
C40_TaskIdsUnique ==
    /\ \A r1, r2 \in Serials :
          r1 # r2 => obj[r1].task_id # obj[r2].task_id
    /\ \A r \in Serials : \E i \in 1..Len(tasks) : tasks[i] = r
    /\ Len(tasks) = Len(obj)

\* the task with serial i is in the store, pending and due
DuePending(i) ==
    /\ i <= Len(obj)
    /\ \E k \in 1..Len(tasks) : tasks[k] = i
    /\ obj[i].status = "pending"
    /\ obj[i].scheduled_time <= clock

\* C35: every pending task in the store is eventually claimed by the
\* scheduler once its scheduled time has passed, also a task that was
\* loaded from the file at process start when no task is scheduled in
\* this process.
C35_DuePendingIsClaimed ==
    \A i \in 1..(MaxPending + 1) :
        DuePending(i) ~> (i <= Len(obj) /\ obj[i].status # "pending")

\* a worker thread the scheduler started is still executing its task
WorkerBusy == \E r \in Serials : wpc[r] = "execute"

\* C32: a scheduler scan never waits for a worker: while a task's worker is
\* still executing, the sleeping scheduler thread can start its next scan
\* and a scan in its loop can take its next task, so other due tasks are
\* claimed and run by their own workers at the same time.
C32_ScanNeverWaits ==
    (scheduler_running /\ WorkerBusy) =>
        /\ dpc = "sleep" => ENABLED check_and_run_tasks_scan
        /\ (dpc = "loop" /\ dpending # << >>) =>
               ENABLED check_and_run_tasks_task
        /\ dpc = "loop" => dpending # << >>

\* two workers execute at once, the second claimed by a later scan than
\* the first
C32_Witness ==
    \E r1, r2 \in Serials :
        /\ r1 # r2
        /\ wpc[r1] = "execute" /\ r1 \in rescanned
        /\ wpc[r2] = "execute" /\ r2 \notin rescanned
        /\ obj[r1].status = "running" /\ obj[r2].status = "running"

\* C38: every task whose status is running has a worker that was started
\* for it, also when the task-started notification or the worker start
\* raises after the status was set, and for a task loaded as running.
C38_RunningHasWorker ==
    \A r \in Serials : obj[r].status = "running" => wpc[r] # "none"

====
